---- MODULE Spec2Model ----
(***************************************************************************)
(* A model of Baseline/run_pipeline.py: the template parser                *)
(* (parse_codex_template), the change detector (parse_changed_paths,       *)
(* collect_special_files), the bundle assembler (copy_repo_files,          *)
(* create_checker_bundle) and the driver loop of main.                     *)
(*                                                                         *)
(* Text is modelled as what it is: a string is a sequence of one-character *)
(* strings, a path is a sequence of parts (each a string), a directory is  *)
(* a function from the paths of its files to their content.                *)
(*                                                                         *)
(* Three specifications share the module:                                  *)
(*   SpecParse   the template parser applied to bounded templates;         *)
(*   SpecExport  the agent mutating a working tree and the export step     *)
(*               (change detection, copy, bundle) run again and again      *)
(*               into one export directory;                                *)
(*   Spec        the driver loop of main over a work list.                 *)
(***************************************************************************)
EXTENDS Integers, Sequences, FiniteSets, TLC

VARIABLES
    \* ---- template parser ----
    template,     \* the template file: a sequence of lines
    parsed,       \* what parse_codex_template did: [status, cmd]
    \* ---- export (change detector + bundle assembler) ----
    tree,         \* the working tree: path -> content, 0 when absent
    moved,        \* the renames staged in the tree: a set of <<from, to>>
    changed,      \* parse_changed_paths' result at the latest export
    keep,         \* keep_paths at the latest export
    filesDir,     \* <export>/files:  relative path -> content
    bundleDir,    \* <export>/bundle: file name -> content
    rootDir,      \* <export> itself: file name -> content
    manifest,     \* create_checker_bundle's returned mapping
    patch,        \* the patch text handed to the latest export
    runs,         \* the exports run so far
    edits,        \* the mutations of the tree so far
    clean,        \* no mutation of the tree since the latest export
    repeated,     \* the latest export ran with the inputs of the one before
    \* ---- driver ----
    tools,        \* which of gh, git, codex are on PATH
    dry_run,      \* args.dry_run
    items,        \* the work list: a sequence of repositories
    repos,        \* repos_root: repository -> "absent" | "git" | "plain"
    idx,          \* the index of the current WorkItem (1-based)
    pc,           \* the driver's position
    cloned_now,   \* ensure_repo's second result for the current item
    started,      \* the items whose loop body was entered
    summaries,    \* item -> the repo_removed field of its summary.json
    failure,      \* what raised out of main, "none" while running
    preexisted,   \* item -> its repository was a valid one before Acquire
    removed       \* the items whose repository main deleted

parseVars  == <<template, parsed>>
exportVars == <<tree, moved, changed, keep, filesDir, bundleDir, rootDir,
                manifest, patch, runs, edits, clean, repeated>>
driverVars == <<tools, dry_run, items, repos, idx, pc, cloned_now, started,
                summaries, failure, preexisted, removed>>
vars == <<parseVars, exportVars, driverVars>>

(***************************************************************************)
(* Bounds.                                                                 *)
(***************************************************************************)
MaxLines == 3      \* lines of a template
MaxEdits == 2      \* mutations of the working tree
MaxRuns == 2       \* exports into the same export directory
MaxItems == 2      \* WorkItems of a work list

(***************************************************************************)
(* Strings.                                                                *)
(***************************************************************************)
Whitespace == {" "}

RECURSIVE LStrip(_)
LStrip(s) ==
    IF s # <<>> /\ Head(s) \in Whitespace THEN LStrip(Tail(s)) ELSE s

RECURSIVE RStrip(_)
RStrip(s) ==
    IF s # <<>> /\ s[Len(s)] \in Whitespace
    THEN RStrip(SubSeq(s, 1, Len(s) - 1))
    ELSE s

Strip(s) == LStrip(RStrip(s))

StartsWith(s, p) == Len(s) >= Len(p) /\ SubSeq(s, 1, Len(p)) = p

EndsWith(s, p) ==
    Len(s) >= Len(p) /\ SubSeq(s, Len(s) - Len(p) + 1, Len(s)) = p

\* p in s
Contains(s, p) ==
    \E i \in 1..(Len(s) - Len(p) + 1) : SubSeq(s, i, i + Len(p) - 1) = p

\* s.find(p) + 1, 0 when p is not in s
Find(s, p) ==
    IF Contains(s, p)
    THEN CHOOSE i \in 1..(Len(s) - Len(p) + 1) :
            /\ SubSeq(s, i, i + Len(p) - 1) = p
            /\ \A j \in 1..(i - 1) : SubSeq(s, j, j + Len(p) - 1) # p
    ELSE 0

\* sep.join(parts)
RECURSIVE Join(_, _)
Join(sep, parts) ==
    IF parts = <<>> THEN <<>>
    ELSE IF Len(parts) = 1 THEN parts[1]
    ELSE parts[1] \o sep \o Join(sep, Tail(parts))

SP == <<" ">>
BSL == <<"\\">>
DASH == <<"-">>
SQ == <<"'">>
DQ == <<"\"">>
CODEX == <<"c", "o", "d", "e", "x">>
EXEC == <<"e", "x", "e", "c">>
MARKER == CODEX \o SP \o EXEC

(***************************************************************************)
(* shlex.split(s): posix mode, whitespace_split, no comments.  The result  *)
(* is [err |-> BOOLEAN, toks |-> the tokens].  st is the lexer's state:    *)
(* "ws" between tokens, "word" in a token, "sq" / "dq" in quotes, "esc"    *)
(* after the escape character (back is the state it returns to).           *)
(***************************************************************************)
RECURSIVE Lex(_, _, _, _, _, _)
Lex(s, i, st, back, tok, toks) ==
    IF i > Len(s) THEN
        CASE st = "ws"   -> [err |-> FALSE, toks |-> toks]
          [] st = "word" -> [err |-> FALSE, toks |-> Append(toks, tok)]
          [] OTHER       -> [err |-> TRUE, toks |-> <<>>]
    ELSE LET c == s[i] IN
        CASE st = "ws" ->
                IF c \in Whitespace THEN Lex(s, i + 1, "ws", back, <<>>, toks)
                ELSE IF c = "\\" THEN Lex(s, i + 1, "esc", "word", <<>>, toks)
                ELSE IF c = "'" THEN Lex(s, i + 1, "sq", back, <<>>, toks)
                ELSE IF c = "\"" THEN Lex(s, i + 1, "dq", back, <<>>, toks)
                ELSE Lex(s, i + 1, "word", back, <<c>>, toks)
          [] st = "word" ->
                IF c \in Whitespace
                THEN Lex(s, i + 1, "ws", back, <<>>, Append(toks, tok))
                ELSE IF c = "\\" THEN Lex(s, i + 1, "esc", "word", tok, toks)
                ELSE IF c = "'" THEN Lex(s, i + 1, "sq", back, tok, toks)
                ELSE IF c = "\"" THEN Lex(s, i + 1, "dq", back, tok, toks)
                ELSE Lex(s, i + 1, "word", back, Append(tok, c), toks)
          [] st = "sq" ->
                IF c = "'" THEN Lex(s, i + 1, "word", back, tok, toks)
                ELSE Lex(s, i + 1, "sq", back, Append(tok, c), toks)
          [] st = "dq" ->
                IF c = "\"" THEN Lex(s, i + 1, "word", back, tok, toks)
                ELSE IF c = "\\" THEN Lex(s, i + 1, "esc", "dq", tok, toks)
                ELSE Lex(s, i + 1, "dq", back, Append(tok, c), toks)
          [] OTHER ->  \* "esc"
                IF back = "dq" /\ c # "\\" /\ c # "\""
                THEN Lex(s, i + 1, back, back, tok \o <<"\\", c>>, toks)
                ELSE Lex(s, i + 1, back, back, Append(tok, c), toks)

shlex_split(s) == Lex(s, 1, "ws", "word", <<>>, <<>>)

(***************************************************************************)
(* parse_codex_template.  The exported-environment mapping it also returns *)
(* is computed from the lines alone, never raises and does not touch the   *)
(* command: it is left out.                                                *)
(***************************************************************************)
\* lines = [ln.rstrip() for ln in text.splitlines()]
Lines(text) == [i \in 1..Len(text) |-> RStrip(text[i])]

\* the index of the first line holding the marker, 0 when there is none
CmdStart(lines) ==
    IF \E i \in 1..Len(lines) : Contains(lines[i], MARKER)
    THEN CHOOSE i \in 1..Len(lines) :
            /\ Contains(lines[i], MARKER)
            /\ \A j \in 1..(i - 1) : ~Contains(lines[j], MARKER)
    ELSE 0

\* the loop over lines[cmd_start:]: blank lines are skipped, a continued
\* line is appended without its backslash, the first other line is appended
\* and ends the loop; so does the end of the lines.
RECURSIVE Merge(_, _, _)
Merge(lines, i, merged) ==
    IF i > Len(lines) THEN merged
    ELSE LET stripped == Strip(lines[i]) IN
        IF stripped = <<>> THEN Merge(lines, i + 1, merged)
        ELSE IF EndsWith(stripped, BSL)
        THEN Merge(lines, i + 1,
                   Append(merged, Strip(SubSeq(stripped, 1, Len(stripped) - 1))))
        ELSE Append(merged, stripped)

\* if cmd_tokens and not cmd_tokens[-1].startswith("-"): cmd_tokens[:-1]
DropPlaceholder(toks) ==
    IF toks # <<>> /\ ~StartsWith(toks[Len(toks)], DASH)
    THEN SubSeq(toks, 1, Len(toks) - 1)
    ELSE toks

\* len(cmd_tokens) < 2 or cmd_tokens[0] != "codex" or cmd_tokens[1] != "exec"
BadCommand(toks) == Len(toks) < 2 \/ toks[1] # CODEX \/ toks[2] # EXEC

parse_codex_template(text) ==
    LET lines == Lines(text)
        cmd_start == CmdStart(lines)
    IN  IF cmd_start = 0 THEN [status |-> "no_marker", cmd |-> <<>>]
        ELSE LET cmd_str == Join(SP, Merge(lines, cmd_start, <<>>))
                 lexed == shlex_split(cmd_str)
             IN  IF lexed.err THEN [status |-> "lex_error", cmd |-> <<>>]
                 ELSE IF BadCommand(lexed.toks)
                 THEN [status |-> "bad_command", cmd |-> <<>>]
                 ELSE [status |-> "ok", cmd |-> DropPlaceholder(lexed.toks)]

(***************************************************************************)
(* The templates the parser is applied to: up to MaxLines lines, each one  *)
(* of the lines below.                                                     *)
(***************************************************************************)
FLAG == <<"-", "-", "f">>
VALUE == <<"v">>
HELLO == <<"h", "i">>

TemplateLines ==
    { MARKER,                                           \* codex exec
      MARKER \o SP \o BSL,                              \* codex exec \
      MARKER \o SP \o FLAG,                             \* codex exec --f
      MARKER \o SP \o FLAG \o SP \o BSL,                \* codex exec --f \
      MARKER \o SP \o FLAG \o SP \o HELLO,              \* codex exec --f hi
      SP \o SP \o VALUE \o SP \o HELLO,                 \*   v hi
      SP \o SP \o VALUE \o SP \o HELLO \o SP \o BSL,    \*   v hi \
      FLAG \o SP \o BSL,                                \* --f \
      <<>>,                                             \* (blank)
      <<"x">> \o MARKER,                                \* xcodex exec
      MARKER \o SP \o SQ \o HELLO,                      \* codex exec 'hi
      MARKER \o SP \o DQ \o HELLO \o SP \o FLAG \o DQ,  \* codex exec "hi --f"
      MARKER \o SP \o BSL \o BSL }                      \* codex exec \\

Templates ==
    UNION { [1..n -> TemplateLines] : n \in 1..MaxLines }

NotParsed == [status |-> "none", cmd |-> <<>>]

ParseInit == template \in Templates /\ parsed = NotParsed

ParseIdle == template = <<>> /\ parsed = NotParsed

\* parse_codex_template returns (export_env, cmd_tokens)
ParseReturns ==
    /\ parsed = NotParsed
    /\ template # <<>>
    /\ parse_codex_template(template).status = "ok"
    /\ parsed' = parse_codex_template(template)
    /\ UNCHANGED template
    /\ UNCHANGED <<exportVars, driverVars>>

\* parse_codex_template raises ValueError
ParseRaises ==
    /\ parsed = NotParsed
    /\ template # <<>>
    /\ parse_codex_template(template).status # "ok"
    /\ parsed' = parse_codex_template(template)
    /\ UNCHANGED template
    /\ UNCHANGED <<exportVars, driverVars>>


(***************************************************************************)
(* Paths.  A relative path is the sequence of its parts, as pathlib keeps  *)
(* it; a file name is a string.                                            *)
(***************************************************************************)
SLASH == <<"/">>
ARROW == <<" ", "-", ">", " ">>
DOT == <<".">>
PY == <<".", "p", "y">>
TEST == <<"t", "e", "s", "t">>
TESTS == <<"t", "e", "s", "t", "s">>
DOCKERFILE == <<"D", "o", "c", "k", "e", "r", "f", "i", "l", "e">>
CODEX_DOCKERFILE == CODEX \o <<".", "d", "o", "c", "k", "e", "r", "f", "i", "l", "e">>
ISSUE_JSON == <<"i", "s", "s", "u", "e", "_", "N", ".", "j", "s", "o", "n">>

\* the files a working tree may hold
P_Dockerfile == << DOCKERFILE >>                                 \* Dockerfile
P_DockerfileDev == << DOCKERFILE \o <<".", "d">> >>              \* Dockerfile.d
P_ExtraTest == << <<"e", "x", "t", "r", "a">>, TEST \o <<"_", "x">> \o PY >>
P_TestsTest == << TESTS, TEST \o <<"_", "x">> \o PY >>           \* tests/test_x.py
P_Src == << <<"s", "r", "c">>, <<"a">> \o PY >>                  \* src/a.py
P_Spaced == << TEST \o <<" ", "a">> \o PY >>                     \* "test a.py"

Universe ==
    {P_Dockerfile, P_DockerfileDev, P_ExtraTest, P_TestsTest, P_Src, P_Spaced}

Contents == {1, 2}

\* the commit checked out: path -> content, 0 when the commit has no such file
HeadTree ==
    [p \in Universe |->
        IF p \in {P_Dockerfile, P_TestsTest, P_Src} THEN 1 ELSE 0]

Name(p) == p[Len(p)]

\* str(path)
PathText(p) == Join(SLASH, p)

\* Path(text): the parts between slashes, empty parts dropped
RECURSIVE SplitParts(_, _, _)
SplitParts(text, part, parts) ==
    IF text = <<>>
    THEN IF part = <<>> THEN parts ELSE Append(parts, part)
    ELSE IF Head(text) = "/"
    THEN SplitParts(Tail(text), <<>>,
                    IF part = <<>> THEN parts ELSE Append(parts, part))
    ELSE SplitParts(Tail(text), Append(part, Head(text)), parts)

PathOf(text) == SplitParts(text, <<>>, <<>>)

\* the code points of the characters in use
Ord(c) ==
    CASE c = " " -> 32 [] c = "\"" -> 34 [] c = "-" -> 45 [] c = "." -> 46
      [] c = "/" -> 47 [] c = ">" -> 62 [] c = "D" -> 68 [] c = "N" -> 78
      [] c = "_" -> 95 [] c = "a" -> 97 [] c = "c" -> 99 [] c = "d" -> 100
      [] c = "e" -> 101 [] c = "f" -> 102 [] c = "i" -> 105 [] c = "j" -> 106
      [] c = "k" -> 107 [] c = "l" -> 108 [] c = "n" -> 110 [] c = "o" -> 111
      [] c = "p" -> 112 [] c = "r" -> 114 [] c = "s" -> 115 [] c = "t" -> 116
      [] c = "u" -> 117 [] c = "x" -> 120 [] c = "y" -> 121

\* s < t for strings
RECURSIVE StrLess(_, _)
StrLess(s, t) ==
    IF t = <<>> THEN FALSE
    ELSE IF s = <<>> THEN TRUE
    ELSE IF Head(s) = Head(t) THEN StrLess(Tail(s), Tail(t))
    ELSE Ord(Head(s)) < Ord(Head(t))

\* p < q for paths: pathlib compares the sequences of parts
RECURSIVE PathLess(_, _)
PathLess(p, q) ==
    IF q = <<>> THEN FALSE
    ELSE IF p = <<>> THEN TRUE
    ELSE IF Head(p) = Head(q) THEN PathLess(Tail(p), Tail(q))
    ELSE StrLess(Head(p), Head(q))

\* sorted(S)
RECURSIVE Sorted(_)
Sorted(S) ==
    IF S = {} THEN <<>>
    ELSE LET m == CHOOSE x \in S : \A y \in S \ {x} : PathLess(x, y)
         IN  <<m>> \o Sorted(S \ {m})

\* name.lower()
Lower(s) ==
    [i \in 1..Len(s) |->
        CASE s[i] = "D" -> "d" [] s[i] = "N" -> "n" [] OTHER -> s[i]]

\* the last index of a dot in name, 0 when it has none
LastDot(name) ==
    IF \E i \in 1..Len(name) : name[i] = "."
    THEN CHOOSE i \in 1..Len(name) :
            name[i] = "." /\ \A j \in (i + 1)..Len(name) : name[j] # "."
    ELSE 0

\* PurePath.suffix
Suffix(name) ==
    LET i == LastDot(name)
    IN  IF 1 < i /\ i < Len(name) THEN SubSeq(name, i, Len(name)) ELSE <<>>

(***************************************************************************)
(* The version-control client: git status --porcelain of the working tree. *)
(* An entry is [xy, path, orig, dir]: the two status columns, the path,    *)
(* for a rename the path it was renamed from (<<>> otherwise), and whether *)
(* the path is an untracked directory, which git reports in place of the   *)
(* files in it.                                                            *)
(***************************************************************************)
Exists(t, p) == p \in Universe /\ t[p] # 0

\* the paths of the index: those of the commit, the staged renames applied
Index(mv) ==
    {p \in Universe : HeadTree[p] # 0 /\ \A m \in mv : m[1] # p}
    \cup {m[2] : m \in mv}

\* what git reports for the untracked file p: p, or the outermost directory
\* above it that holds no tracked file
UntrackedRoot(mv, p) ==
    LET free == {k \in 1..(Len(p) - 1) :
                    \A q \in Index(mv) :
                        Len(q) < k \/ SubSeq(q, 1, k) # SubSeq(p, 1, k)}
    IN  IF free = {} THEN [path |-> p, dir |-> FALSE]
        ELSE [path |-> SubSeq(p, 1, CHOOSE k \in free : \A l \in free : k <= l),
              dir |-> TRUE]

StatusEntries(t, mv) ==
    LET dests == {m[2] : m \in mv}
    IN  {[xy |-> <<"R", IF t[m[2]] = 0 THEN "D"
                        ELSE IF t[m[2]] # HeadTree[m[1]] THEN "M" ELSE " ">>,
          path |-> m[2], orig |-> m[1], dir |-> FALSE] : m \in mv}
        \cup
        {[xy |-> <<" ", "D">>, path |-> p, orig |-> <<>>, dir |-> FALSE] :
            p \in {q \in Index(mv) \ dests : t[q] = 0}}
        \cup
        {[xy |-> <<" ", "M">>, path |-> p, orig |-> <<>>, dir |-> FALSE] :
            p \in {q \in Index(mv) \ dests : t[q] # 0 /\ t[q] # HeadTree[q]}}
        \cup
        {[xy |-> <<"?", "?">>, path |-> UntrackedRoot(mv, p).path, orig |-> <<>>,
          dir |-> UntrackedRoot(mv, p).dir] :
            p \in {q \in Universe \ Index(mv) : t[q] # 0}}

\* git quotes a path that holds a space as a C string literal
QuotePath(text) ==
    IF \E i \in 1..Len(text) : text[i] = " " THEN DQ \o text \o DQ ELSE text

\* the path as git prints it: a directory with a slash after it
ShownPath(p, dir) == QuotePath(PathText(p) \o (IF dir THEN SLASH ELSE <<>>))

PorcelainLine(e) ==
    e.xy \o SP \o
    (IF e.orig = <<>>
     THEN ShownPath(e.path, e.dir)
     ELSE ShownPath(e.orig, FALSE) \o ARROW \o ShownPath(e.path, FALSE))

\* the lines of the status text (parse_changed_paths builds a set from them,
\* so their order and repetitions are immaterial)
PorcelainLines(t, mv) == {PorcelainLine(e) : e \in StatusEntries(t, mv)}

(***************************************************************************)
(* The change detector.                                                    *)
(***************************************************************************)
\* payload.split(" -> ", 1)[1]
AfterArrow(payload) ==
    SubSeq(payload, Find(payload, ARROW) + Len(ARROW), Len(payload))

\* one line of the loop of parse_changed_paths: the path it adds
ParseLine(raw) ==
    LET line == RStrip(raw)
        payload == IF Len(line) > 3 THEN SubSeq(line, 4, Len(line)) ELSE <<>>
        dest == IF Contains(payload, ARROW) THEN AfterArrow(payload) ELSE payload
    IN  PathOf(Strip(dest))

parse_changed_paths(lines) ==
    {ParseLine(raw) : raw \in {l \in lines : RStrip(l) # <<>>}}

\* name == "Dockerfile" or name.startswith("Dockerfile.")
IsDockerfileName(name) ==
    name = DOCKERFILE \/ StartsWith(name, DOCKERFILE \o DOT)

IsSpecial(p) ==
    LET name == Name(p) IN
    \/ IsDockerfileName(name)
    \/ StartsWith(Lower(name), TEST) /\ Suffix(name) = PY
    \/ p[1] = TESTS /\ Suffix(name) = PY

collect_special_files(t) == {p \in Universe : t[p] # 0 /\ IsSpecial(p)}

(***************************************************************************)
(* The bundle assembler.  A directory is a function from the relative      *)
(* paths (files/) or the names (bundle/, the export root) of its files to  *)
(* their content.                                                          *)
(***************************************************************************)
EmptyDir == [p \in {} |-> 0]

\* shutil.copy2 of content c to dst in directory dir: creates or overwrites
Copy2(dir, dst, c) ==
    [p \in DOMAIN dir \cup {dst} |-> IF p = dst THEN c ELSE dir[p]]

\* copy_repo_files: the paths that exist as files in the tree are copied
\* over whatever dest_dir holds, the others are skipped
RECURSIVE CopyEach(_, _, _)
CopyEach(t, rels, dest) ==
    IF rels = <<>> THEN dest
    ELSE IF ~Exists(t, Head(rels)) THEN CopyEach(t, Tail(rels), dest)
    ELSE CopyEach(t, Tail(rels), Copy2(dest, Head(rels), t[Head(rels)]))

copy_repo_files(t, rel_paths, dest) == CopyEach(t, Sorted(rel_paths), dest)

\* the content of bundle/issue_<n>.json: the issue and PR records are those
\* of the WorkItem, the patch text is the part that may differ between runs
\* (negative, to tell it from the content of a file of the tree)
IssueJson(patch_text) == 0 - patch_text

\* docker_src.exists() and docker_src.is_file(), docker_src = files/Dockerfile
HasDockerSrc(files) == P_Dockerfile \in DOMAIN files

\* a faulty variant: the Dockerfile is copied only where there is none yet
CopyDockerfileIfMissing(files, dir) ==
    IF HasDockerSrc(files) /\ CODEX_DOCKERFILE \notin DOMAIN dir
    THEN Copy2(dir, CODEX_DOCKERFILE, files[P_Dockerfile])
    ELSE dir

\* the two copies of files/Dockerfile, into dir = bundle/ or the export root
CopyDockerfile(files, dir) ==
    IF HasDockerSrc(files)
    THEN Copy2(dir, CODEX_DOCKERFILE, files[P_Dockerfile])
    ELSE dir

\* fnmatch(name, "test*.py")
MatchesTestGlob(name) ==
    StartsWith(name, TEST) /\ EndsWith(name, PY) /\ Len(name) >= Len(TEST) + Len(PY)

\* sorted(files_dir.rglob("test*.py"))
TestFiles(files) == Sorted({p \in DOMAIN files : MatchesTestGlob(Name(p))})

\* a faulty variant: the flattening loop without the seen_names test, so a
\* later file of the same name overwrites the earlier one and is counted again
RECURSIVE FlattenLoopNoSeen(_, _, _)
FlattenLoopNoSeen(files, todo, st) ==
    IF todo = <<>> THEN st
    ELSE LET test_file == Head(todo)
             name == Name(test_file)
         IN  FlattenLoopNoSeen(files, Tail(todo),
                    [seen |-> st.seen \cup {name},
                     bundle |-> Copy2(st.bundle, name, files[test_file]),
                     root |-> Copy2(st.root, name, files[test_file]),
                     copied |-> st.copied + 1])

\* the flattening loop: st is [seen, bundle, root, copied]
RECURSIVE FlattenLoop(_, _, _)
FlattenLoop(files, todo, st) ==
    IF todo = <<>> THEN st
    ELSE LET test_file == Head(todo)
             name == Name(test_file)
         IN  IF name \in st.seen THEN FlattenLoop(files, Tail(todo), st)
             ELSE FlattenLoop(files, Tail(todo),
                    [seen |-> st.seen \cup {name},
                     bundle |-> Copy2(st.bundle, name, files[test_file]),
                     root |-> Copy2(st.root, name, files[test_file]),
                     copied |-> st.copied + 1])

\* a faulty variant: a name that bundle/ already holds counts as seen and is
\* not written again
FlattenSkipExisting(files, bundle, root) ==
    FlattenLoop(files, TestFiles(files),
                [seen |-> {n \in DOMAIN bundle : MatchesTestGlob(n)},
                 bundle |-> bundle, root |-> root, copied |-> 0])

Flatten(files, bundle, root) ==
    FlattenLoop(files, TestFiles(files),
                [seen |-> {}, bundle |-> bundle, root |-> root, copied |-> 0])

\* create_checker_bundle: [bundle, root, manifest]
create_checker_bundle(files, bundle, root, patch_text) ==
    LET b1 == Copy2(bundle, ISSUE_JSON, IssueJson(patch_text))
        b2 == CopyDockerfile(files, b1)
        r2 == CopyDockerfile(files, root)
        fl == Flatten(files, b2, r2)
        r3 == Copy2(fl.root, ISSUE_JSON, b1[ISSUE_JSON])
    IN  [bundle |-> fl.bundle,
         root |-> r3,
         manifest |->
            [bundle_dockerfile |-> CODEX_DOCKERFILE \in DOMAIN fl.bundle,
             root_dockerfile |-> CODEX_DOCKERFILE \in DOMAIN r3,
             bundle_test_count |-> fl.copied,
             root_test_count |-> fl.copied]]

(***************************************************************************)
(* SpecExport: the agent (or anyone) mutates the working tree, and the     *)
(* export step of main (lines 423-439) runs into the same export directory *)
(* once per run of the pipeline for the WorkItem.                          *)
(***************************************************************************)
Patches == {1, 2}

NoManifest ==
    [bundle_dockerfile |-> FALSE, root_dockerfile |-> FALSE,
     bundle_test_count |-> 0, root_test_count |-> 0]

ExportInit ==
    /\ tree = HeadTree
    /\ moved = {}
    /\ changed = {}
    /\ keep = {}
    /\ filesDir = EmptyDir
    /\ bundleDir = EmptyDir
    /\ rootDir = EmptyDir
    /\ manifest = NoManifest
    /\ patch = 1
    /\ runs = 0
    /\ edits = 0
    /\ clean = FALSE
    /\ repeated = FALSE

ExportIdle ==
    /\ tree = EmptyDir
    /\ moved = {}
    /\ changed = {}
    /\ keep = {}
    /\ filesDir = EmptyDir
    /\ bundleDir = EmptyDir
    /\ rootDir = EmptyDir
    /\ manifest = NoManifest
    /\ patch = 1
    /\ runs = MaxRuns
    /\ edits = MaxEdits
    /\ clean = FALSE
    /\ repeated = FALSE

\* the working tree gets a file, or a file gets new content
AgentWrite ==
    /\ edits < MaxEdits
    /\ \E p \in Universe, c \in Contents :
        /\ tree[p] # c
        /\ tree' = [tree EXCEPT ![p] = c]
    /\ edits' = edits + 1
    /\ clean' = FALSE
    /\ UNCHANGED <<moved, changed, keep, filesDir, bundleDir, rootDir,
                   manifest, patch, runs, repeated>>
    /\ UNCHANGED <<parseVars, driverVars>>

\* a file of the working tree is deleted
AgentDelete ==
    /\ edits < MaxEdits
    /\ \E p \in Universe :
        /\ tree[p] # 0
        /\ tree' = [tree EXCEPT ![p] = 0]
    /\ edits' = edits + 1
    /\ clean' = FALSE
    /\ UNCHANGED <<moved, changed, keep, filesDir, bundleDir, rootDir,
                   manifest, patch, runs, repeated>>
    /\ UNCHANGED <<parseVars, driverVars>>

\* git mv a b: a tracked file is renamed to a path that is free
AgentRename ==
    /\ edits < MaxEdits
    /\ \E a \in Universe, b \in Universe :
        /\ HeadTree[a] # 0 /\ tree[a] # 0
        /\ HeadTree[b] = 0 /\ tree[b] = 0
        /\ \A m \in moved : m[1] # a /\ m[2] # b
        /\ tree' = [tree EXCEPT ![b] = tree[a], ![a] = 0]
        /\ moved' = moved \cup {<<a, b>>}
    /\ edits' = edits + 1
    /\ clean' = FALSE
    /\ UNCHANGED <<changed, keep, filesDir, bundleDir, rootDir,
                   manifest, patch, runs, repeated>>
    /\ UNCHANGED <<parseVars, driverVars>>

\* main, lines 423-439: detect the changes, copy them, assemble the bundle
Export ==
    /\ runs < MaxRuns
    /\ \E patch_text \in Patches :
       \E changed_paths \in {parse_changed_paths(PorcelainLines(tree, moved))} :
       \E keep_paths \in {changed_paths \cup collect_special_files(tree)} :
       \E files \in {copy_repo_files(tree, keep_paths, filesDir)} :
       \E made \in {create_checker_bundle(files, bundleDir, rootDir, patch_text)} :
            /\ changed' = changed_paths
            /\ keep' = keep_paths
            /\ filesDir' = files
            /\ bundleDir' = made.bundle
            /\ rootDir' = made.root
            /\ manifest' = made.manifest
            /\ patch' = patch_text
            /\ repeated' = (clean /\ patch_text = patch)
    /\ runs' = runs + 1
    /\ clean' = TRUE
    /\ UNCHANGED <<tree, moved, edits>>
    /\ UNCHANGED <<parseVars, driverVars>>


(***************************************************************************)
(* Spec: the driver, main.  The external collaborators answer as they may: *)
(* a gh or git call succeeds or fails, the agent exits zero or non-zero,   *)
(* the filesystem takes a write or raises.  Nothing in main catches an     *)
(* exception: one raised anywhere leaves main (pc = "crashed", failure     *)
(* says where).                                                            *)
(***************************************************************************)
Repos == {"r1", "r2"}

WorkLists == UNION { [1..n -> Repos] : n \in 0..MaxItems }

NoItems == [i \in {} |-> FALSE]

DriverInit ==
    /\ tools \in [{"gh", "git", "codex"} -> BOOLEAN]
    /\ dry_run \in BOOLEAN
    /\ items \in WorkLists
    /\ repos \in [Repos -> {"absent", "git", "plain"}]
    /\ idx = 1
    /\ pc = "check"
    /\ cloned_now = FALSE
    /\ started = {}
    /\ summaries = NoItems
    /\ failure = "none"
    /\ preexisted = NoItems
    /\ removed = {}

DriverIdle ==
    /\ tools = [t \in {"gh", "git", "codex"} |-> TRUE]
    /\ dry_run = FALSE
    /\ items = <<>>
    /\ repos = [r \in Repos |-> "absent"]
    /\ idx = 1
    /\ pc = "idle"
    /\ cloned_now = FALSE
    /\ started = {}
    /\ summaries = NoItems
    /\ failure = "none"
    /\ preexisted = NoItems
    /\ removed = {}

\* an exception leaves main
Raise(what) ==
    /\ pc' = "crashed"
    /\ failure' = what

\* lines 334-343: shutil.which("gh"), shutil.which("codex")
Precheck ==
    /\ pc = "check"
    /\ IF ~tools["gh"] THEN Raise("missing_gh")
       ELSE IF ~tools["codex"] /\ ~dry_run THEN Raise("missing_codex")
       ELSE pc' = "loop" /\ failure' = failure
    /\ UNCHANGED <<tools, dry_run, items, repos, idx, cloned_now, started,
                   summaries, preexisted, removed>>
    /\ UNCHANGED <<parseVars, exportVars>>

\* line 361: the next item of the list, or the end of the loop
NextItem ==
    /\ pc = "loop"
    /\ IF idx <= Len(items)
       THEN pc' = "acquire" /\ started' = started \cup {idx}
       ELSE pc' = "done" /\ started' = started
    /\ UNCHANGED <<tools, dry_run, items, repos, idx, cloned_now, summaries,
                   failure, preexisted, removed>>
    /\ UNCHANGED <<parseVars, exportVars>>

\* line 367, ensure_repo: an existing repository is used as it is; a path
\* that is no repository raises; else gh clones, and when that fails git does
Acquire ==
    /\ pc = "acquire"
    /\ LET r == items[idx] IN
        /\ preexisted' = [i \in DOMAIN preexisted \cup {idx} |->
                            IF i = idx THEN repos[r] = "git" ELSE preexisted[i]]
        /\ \/ /\ repos[r] = "git"
              /\ cloned_now' = FALSE
              /\ pc' = "fetch"
              /\ UNCHANGED <<repos, failure>>
           \/ /\ repos[r] = "plain"
              /\ Raise("not_a_repo")
              /\ UNCHANGED <<repos, cloned_now>>
           \/ /\ repos[r] = "absent"           \* gh repo clone succeeds
              /\ repos' = [repos EXCEPT ![r] = "git"]
              /\ cloned_now' = TRUE
              /\ pc' = "fetch"
              /\ UNCHANGED failure
           \/ /\ repos[r] = "absent"           \* gh fails, git clone succeeds
              /\ tools["git"]
              /\ repos' = [repos EXCEPT ![r] = "git"]
              /\ cloned_now' = TRUE
              /\ pc' = "fetch"
              /\ UNCHANGED failure
           \/ /\ repos[r] = "absent"           \* gh fails, git clone fails
              /\ tools["git"]
              /\ Raise("clone_failed")
              /\ UNCHANGED <<repos, cloned_now>>
           \/ /\ repos[r] = "absent"           \* gh fails, there is no git
              /\ ~tools["git"]
              /\ Raise("missing_git")
              /\ UNCHANGED <<repos, cloned_now>>
    /\ UNCHANGED <<tools, dry_run, items, idx, started, summaries, removed>>
    /\ UNCHANGED <<parseVars, exportVars>>

\* lines 372-394: the three gh api calls, then the files of Baseline/
FetchMetadata ==
    /\ pc = "fetch"
    /\ \/ pc' = "built" /\ failure' = failure
       \/ Raise("fetch")
    /\ UNCHANGED <<tools, dry_run, items, repos, idx, cloned_now, started,
                   summaries, preexisted, removed>>
    /\ UNCHANGED <<parseVars, exportVars>>

\* lines 396-398: a dry run goes on to the next item
DryRunStop ==
    /\ pc = "built"
    /\ dry_run
    /\ idx' = idx + 1
    /\ pc' = "loop"
    /\ UNCHANGED <<tools, dry_run, items, repos, cloned_now, started,
                   summaries, failure, preexisted, removed>>
    /\ UNCHANGED <<parseVars, exportVars>>

\* lines 400-402: the agent runs in the repository
InvokeAgent ==
    /\ pc = "built"
    /\ ~dry_run
    /\ \/ pc' = "export" /\ failure' = failure
       \/ Raise("agent")
    /\ UNCHANGED <<tools, dry_run, items, repos, idx, cloned_now, started,
                   summaries, preexisted, removed>>
    /\ UNCHANGED <<parseVars, exportVars>>

\* lines 404-439: the metadata copies, git status (parse_changed_paths),
\* the copy of the ChangeSet and create_checker_bundle
DetectAndAssemble ==
    /\ pc = "export"
    /\ \/ ~tools["git"] /\ Raise("missing_git")
       \/ tools["git"] /\ pc' = "summarize" /\ failure' = failure
       \/ tools["git"] /\ Raise("bundle")
    /\ UNCHANGED <<tools, dry_run, items, repos, idx, cloned_now, started,
                   summaries, preexisted, removed>>
    /\ UNCHANGED <<parseVars, exportVars>>

\* lines 427-444: summary.json, its repo_removed field is cloned_now
Summarize ==
    /\ pc = "summarize"
    /\ summaries' = [i \in DOMAIN summaries \cup {idx} |->
                        IF i = idx THEN cloned_now ELSE summaries[i]]
    /\ pc' = "cleanup"
    /\ UNCHANGED <<tools, dry_run, items, repos, idx, cloned_now, started,
                   failure, preexisted, removed>>
    /\ UNCHANGED <<parseVars, exportVars>>

\* a faulty variant: the repository is removed whether it was cloned or not
CleanupAlways ==
    /\ pc = "cleanup"
    /\ repos' = [repos EXCEPT ![items[idx]] = "absent"]
    /\ removed' = removed \cup {idx}
    /\ idx' = idx + 1
    /\ pc' = "loop"
    /\ UNCHANGED <<tools, dry_run, items, cloned_now, started, summaries,
                   failure, preexisted>>
    /\ UNCHANGED <<parseVars, exportVars>>

\* lines 447-453: a repository cloned for this item is removed
Cleanup ==
    /\ pc = "cleanup"
    /\ IF cloned_now
       THEN /\ repos' = [repos EXCEPT ![items[idx]] = "absent"]
            /\ removed' = removed \cup {idx}
       ELSE UNCHANGED <<repos, removed>>
    /\ idx' = idx + 1
    /\ pc' = "loop"
    /\ UNCHANGED <<tools, dry_run, items, cloned_now, started, summaries,
                   failure, preexisted>>
    /\ UNCHANGED <<parseVars, exportVars>>

(***************************************************************************)
(* The specifications.                                                     *)
(***************************************************************************)
Init == DriverInit /\ ParseIdle /\ ExportIdle

Next ==
    \/ Precheck
    \/ NextItem
    \/ Acquire
    \/ FetchMetadata
    \/ DryRunStop
    \/ InvokeAgent
    \/ DetectAndAssemble
    \/ Summarize
    \/ Cleanup

Spec == Init /\ [][Next]_vars

InitParse == ParseInit /\ ExportIdle /\ DriverIdle

NextParse == ParseReturns \/ ParseRaises

SpecParse == InitParse /\ [][NextParse]_vars

InitExport == ExportInit /\ ParseIdle /\ DriverIdle

NextExport == AgentWrite \/ AgentDelete \/ AgentRename \/ Export

SpecExport == InitExport /\ [][NextExport]_vars

(***************************************************************************)
(* The claims.                                                             *)
(***************************************************************************)
Ended == pc \in {"done", "crashed"}

PerItemFailures == {"fetch", "agent", "bundle"}

MissingTool == {"missing_gh", "missing_git", "missing_codex"}

\* C1: a failure of one WorkItem in FetchMetadata, InvokeAgent or bundling
\* aborts only that item: the run does not end because of it, and when the
\* run has ended every item of the work list was started.
C1_FailureAbortsOnlyItem ==
    /\ failure \in PerItemFailures => pc # "crashed"
    /\ (Ended /\ failure \in PerItemFailures \cup {"none"})
            => started = 1..Len(items)

\* C8: cleanup is asymmetric.  A repository is removed only for an item that
\* cloned it (it was no valid repository before the item's Acquire) and only
\* once the item's summary is written; while an item is being processed its
\* repository is there; an item whose summary is written and whose cleanup
\* is over has its repository removed exactly when it was cloned for it; and
\* the summary's repo_removed says exactly that.
C8_CleanupAsymmetric ==
    /\ \A i \in removed : i \in DOMAIN summaries /\ ~preexisted[i]
    /\ pc \in {"fetch", "built", "export", "summarize", "cleanup"}
            => repos[items[idx]] = "git"
    /\ \A i \in DOMAIN summaries :
            /\ summaries[i] = ~preexisted[i]
            /\ i < idx => (i \in removed <=> ~preexisted[i])
    /\ \A i \in DOMAIN preexisted :
            (preexisted[i] /\ (i < idx \/ Ended)) => repos[items[i]] = "git"

\* C8 witness: a run in which one item's repository was there before and was
\* kept, and another item's was cloned and removed after its summary.
C8_Witness ==
    /\ pc = "done"
    /\ \E i \in DOMAIN summaries, j \in DOMAIN summaries :
        /\ preexisted[i] /\ i \notin removed /\ repos[items[i]] = "git"
        /\ ~preexisted[j] /\ j \in removed /\ summaries[j]
        /\ repos[items[j]] = "absent"

\* C10: a missing upstream tool (gh, git, codex) is found once, before the
\* first item: a run that fails for a missing tool has started no item.
C10_ToolsCheckedBeforeItems ==
    failure \in MissingTool => started = {}

\* every line from the marker line to the end ends with the backslash
OpenContinuation(text) ==
    LET lines == Lines(text)
        cmd_start == CmdStart(lines)
    IN  /\ cmd_start # 0
        /\ \A i \in cmd_start..Len(lines) : EndsWith(Strip(lines[i]), BSL)

\* C6: a template whose lines from the marker line to its end all end with
\* the continuation marker does not parse: no command is returned.
C6_OpenContinuationFails ==
    (parsed # NotParsed /\ OpenContinuation(template)) => parsed.status # "ok"

\* C7: a returned base command has at least two tokens, the first two being
\* codex and exec, also after the placeholder is dropped.
C7_BaseCommandKeepsMarker ==
    parsed.status = "ok" =>
        /\ Len(parsed.cmd) >= 2
        /\ parsed.cmd[1] = CODEX
        /\ parsed.cmd[2] = EXEC

\* the paths git reports: for a rename its destination
StatusPaths == {e.path : e \in StatusEntries(tree, moved)}

\* C2: the ChangeSet is exactly the union of the status paths (a rename
\* giving its destination only) and the special files, each path once.
C2_ChangeSetIsUnion ==
    (runs >= 1 /\ clean) =>
        /\ changed = StatusPaths
        /\ keep = StatusPaths \cup collect_special_files(tree)

TestsIn(files) == {p \in DOMAIN files : MatchesTestGlob(Name(p))}

\* the test file of files/ with p's name that comes first in sorted order
FirstNamed(files, p) ==
    CHOOSE q \in TestsIn(files) :
        /\ Name(q) = Name(p)
        /\ \A r \in TestsIn(files) : (Name(r) = Name(p) /\ r # q) => PathLess(q, r)

\* C3: after an export, each test file name of files/ is in bundle/ and at
\* the export root with the content of the file of that name that is first
\* in sorted order, and the test count counts each name once.
C3_FirstInSortedOrderKept ==
    runs >= 1 =>
        /\ \A p \in TestsIn(filesDir) :
            /\ Name(p) \in DOMAIN bundleDir /\ Name(p) \in DOMAIN rootDir
            /\ bundleDir[Name(p)] = filesDir[FirstNamed(filesDir, p)]
            /\ rootDir[Name(p)] = filesDir[FirstNamed(filesDir, p)]
        /\ manifest.bundle_test_count = Cardinality({Name(p) : p \in TestsIn(filesDir)})
        /\ manifest.root_test_count = manifest.bundle_test_count

\* C3 witness: two test files of one name and different content were
\* flattened, the one under extra/ kept.
C3_Witness ==
    /\ runs >= 1
    /\ P_ExtraTest \in DOMAIN filesDir /\ P_TestsTest \in DOMAIN filesDir
    /\ filesDir[P_ExtraTest] # filesDir[P_TestsTest]
    /\ bundleDir[Name(P_TestsTest)] = filesDir[P_ExtraTest]
    /\ manifest.bundle_test_count = 1

\* C4: after any sequence of exports, files/ holds exactly the paths of the
\* latest ChangeSet that exist in the tree, and bundle/ and the export root
\* hold only what derives from them.
C4_OverwriteNeverMerges ==
    (runs >= 1 /\ clean) =>
        LET latest == {p \in keep : Exists(tree, p)} IN
        /\ DOMAIN filesDir = latest
        /\ \A p \in latest : filesDir[p] = tree[p]
        /\ DOMAIN bundleDir \subseteq
                {ISSUE_JSON} \cup {Name(p) : p \in latest}
                \cup (IF P_Dockerfile \in latest THEN {CODEX_DOCKERFILE} ELSE {})
        /\ DOMAIN rootDir = DOMAIN bundleDir

\* C5: an export that runs again with the tree, the ChangeSet and the patch
\* of the one before leaves files/, bundle/ and the export root as they
\* were and returns the same manifest.
C5_Idempotent ==
    [][(runs' = runs + 1 /\ clean /\ patch' = patch) =>
            /\ filesDir' = filesDir
            /\ bundleDir' = bundleDir
            /\ rootDir' = rootDir
            /\ manifest' = manifest
            /\ keep' = keep]_vars

\* C5 witness: a second export with the inputs of the first, with files
\* copied, a Dockerfile mirrored and a test flattened.
C5_Witness ==
    /\ repeated
    /\ filesDir # EmptyDir
    /\ manifest.bundle_dockerfile
    /\ manifest.bundle_test_count >= 1

DockerfilesIn(files) == {p \in DOMAIN files : IsDockerfileName(Name(p))}

\* C9 as claimed: if any Dockerfile (Dockerfile or Dockerfile.<tag>, at any
\* depth) is under files/ after the copy, both codex.dockerfile exist with
\* that content and the manifest reports both; if the ChangeSet brought no
\* Dockerfile the export creates neither.
C9_AnyDockerfileMirrored ==
    [][runs' = runs + 1 =>
        /\ DockerfilesIn(filesDir') # {} =>
            /\ CODEX_DOCKERFILE \in DOMAIN bundleDir'
            /\ CODEX_DOCKERFILE \in DOMAIN rootDir'
            /\ \E p \in DockerfilesIn(filesDir') :
                /\ bundleDir'[CODEX_DOCKERFILE] = filesDir'[p]
                /\ rootDir'[CODEX_DOCKERFILE] = filesDir'[p]
            /\ manifest'.bundle_dockerfile /\ manifest'.root_dockerfile
        /\ {p \in keep' : Exists(tree, p) /\ IsDockerfileName(Name(p))} = {} =>
            /\ CODEX_DOCKERFILE \notin DOMAIN bundleDir
                    => CODEX_DOCKERFILE \notin DOMAIN bundleDir'
            /\ CODEX_DOCKERFILE \notin DOMAIN rootDir
                    => CODEX_DOCKERFILE \notin DOMAIN rootDir']_vars

\* the codex.dockerfile of a directory: its content, 0 when there is none
DockerMirror(dir) ==
    IF CODEX_DOCKERFILE \in DOMAIN dir THEN dir[CODEX_DOCKERFILE] ELSE 0

\* C9 amended: if files/Dockerfile (that name, at the top of files/) exists
\* after the copy, both codex.dockerfile exist with its content and the
\* manifest reports both; if it does not, the export creates neither and
\* leaves what is there as it is.
C9_TopLevelDockerfileMirrored ==
    [][runs' = runs + 1 =>
        IF P_Dockerfile \in DOMAIN filesDir'
        THEN /\ DockerMirror(bundleDir') = filesDir'[P_Dockerfile]
             /\ DockerMirror(rootDir') = filesDir'[P_Dockerfile]
             /\ manifest'.bundle_dockerfile /\ manifest'.root_dockerfile
        ELSE /\ DockerMirror(bundleDir') = DockerMirror(bundleDir)
             /\ DockerMirror(rootDir') = DockerMirror(rootDir)]_vars

\* C9 witness: a Dockerfile whose content changed between two exports is
\* mirrored with its new content.
C9_Witness ==
    /\ runs = 2 /\ clean
    /\ P_Dockerfile \in DOMAIN filesDir
    /\ filesDir[P_Dockerfile] = 2
    /\ DockerMirror(bundleDir) = 2 /\ DockerMirror(rootDir) = 2
    /\ manifest.bundle_dockerfile /\ manifest.root_dockerfile

====
